---- MODULE Spec2Model ----
(***************************************************************************)
(* A model of the user-management service of server.js: the Express        *)
(* handlers under /api, the PostgreSQL table they query through the pool,  *)
(* the in-memory fallback store (global.users, global.nextId) and the      *)
(* start-up probe initializeDatabase(), which runs concurrently with the   *)
(* handlers because it is called without being awaited.                     *)
(*                                                                          *)
(* Strings are sequences of one-character strings, so that trim(),          *)
(* toLowerCase(), parseInt() and the e-mail regular expression are          *)
(* computed character by character.  A JSON value of a request body is a    *)
(* record [t, v]: its JavaScript type and its String() conversion.          *)
(***************************************************************************)
EXTENDS Integers, Sequences, FiniteSets

\* ------------------------------------------------------------------ bounds
\* Ids handed out over both stores (the serial column and global.nextId).
MaxCreates == 2

\* -------------------------------------------------------------- JS values
Undefined == [t |-> "undefined", v |-> <<>>]

Str(s) == [t |-> "string", v |-> s]

\* A number, held as its decimal digits (what String(n) gives).
Num(s) == [t |-> "number", v |-> s]

\* An array of strings, held as its String() conversion (the elements
\* joined with ","): typeof is not "string", so it has no trim/toLowerCase.
Arr(s) == [t |-> "array", v |-> s]

\* An object that cannot be converted to a string: parsed from JSON such as
\* {"toString": 1}, its own toString is no function and valueOf returns the
\* object, so String(x) throws a TypeError.
Obj == [t |-> "object", v |-> <<>>]

\* String(x) throws.
NoPrimitive(x) == x.t = "object"

\* String(x), as RegExp.prototype.test and parseInt apply it to an argument.
ToString(x) ==
  IF x.t = "undefined" THEN <<"u", "n", "d", "e", "f", "i", "n", "e", "d">>
  ELSE x.v

\* !x is FALSE: undefined, "" and 0 are falsy, every array is truthy.
Truthy(x) ==
  CASE x.t = "undefined" -> FALSE
    [] x.t = "string" -> x.v # <<>>
    [] x.t = "number" -> x.v # <<"0">>
    [] OTHER -> TRUE

\* x.trim and x.toLowerCase exist (calling them on anything else throws a
\* TypeError).
IsString(x) == x.t = "string"

IsSpace(c) == c = " "

IsDigit(c) == c \in {"0", "1", "2", "3", "4", "5", "6", "7", "8", "9"}

DigitVal(c) ==
  CASE c = "0" -> 0 [] c = "1" -> 1 [] c = "2" -> 2 [] c = "3" -> 3
    [] c = "4" -> 4 [] c = "5" -> 5 [] c = "6" -> 6 [] c = "7" -> 7
    [] c = "8" -> 8 [] OTHER -> 9

LowerChar(c) ==
  CASE c = "A" -> "a" [] c = "B" -> "b" [] c = "C" -> "c" [] c = "D" -> "d"
    [] OTHER -> c

\* String.prototype.toLowerCase
toLowerCase(s) == [i \in 1..Len(s) |-> LowerChar(s[i])]

RECURSIVE trimStart(_)
trimStart(s) ==
  IF s # <<>> /\ IsSpace(Head(s)) THEN trimStart(Tail(s)) ELSE s

RECURSIVE trimEnd(_)
trimEnd(s) ==
  IF s # <<>> /\ IsSpace(s[Len(s)]) THEN trimEnd(SubSeq(s, 1, Len(s) - 1))
  ELSE s

\* String.prototype.trim
trim(s) == trimEnd(trimStart(s))

\* One or more characters, none of them white space or "@": [^\s@]+
EmailPart(s) ==
  /\ s # <<>>
  /\ \A i \in 1..Len(s) : ~IsSpace(s[i]) /\ s[i] # "@"

\* /^[^\s@]+@[^\s@]+\.[^\s@]+$/.test(email)
isValidEmail(email) ==
  LET s == ToString(email) IN
  \E i \in 1..Len(s) : \E j \in 1..Len(s) :
    /\ i < j
    /\ s[i] = "@"
    /\ s[j] = "."
    /\ EmailPart(SubSeq(s, 1, i - 1))
    /\ EmailPart(SubSeq(s, i + 1, j - 1))
    /\ EmailPart(SubSeq(s, j + 1, Len(s)))

\* An integer result, or NaN, or null (the three things an age can be).
Int32(n) == [k |-> "int", n |-> n]

NaN == [k |-> "NaN", n |-> 0]

Null == [k |-> "null", n |-> 0]

RECURSIVE DigitsValue(_, _)
DigitsValue(s, acc) ==
  IF s # <<>> /\ IsDigit(Head(s))
  THEN DigitsValue(Tail(s), 10 * acc + DigitVal(Head(s)))
  ELSE acc

\* parseInt(x): String(x), leading white space skipped, then the longest
\* prefix of digits; NaN when there is none.
parseInt(x) ==
  LET s == trimStart(ToString(x)) IN
  IF s # <<>> /\ IsDigit(Head(s)) THEN Int32(DigitsValue(s, 0)) ELSE NaN

\* The text the pg driver sends for a parameter, read by PostgreSQL as an
\* INTEGER: digits with white space around them, anything else is error
\* 22P02 (an array is sent as the literal {...}).
PgInteger(x) ==
  LET s == trim(ToString(x)) IN
  IF /\ x.t \in {"string", "number"}
     /\ s # <<>>
     /\ \A i \in 1..Len(s) : IsDigit(s[i])
  THEN Int32(DigitsValue(s, 0))
  ELSE NaN

\* ------------------------------------------------------------ request inputs
EmailA == <<"a", "@", "b", ".", "c">>

EmailD == <<"d", "@", "b", ".", "c">>

EmailDUpper == <<"D", "@", "b", ".", "c">>

Body(name, email, age) == [name |-> name, email |-> email, age |-> age]

\* The request bodies tried: two addresses, one of them also in upper case;
\* a name with white space around it and a blank name; an age that is a
\* number, omitted, or not a number; a field missing; a malformed address;
\* a name and an address that are not strings.
Bodies ==
  { Body(Str(<<"A">>), Str(EmailA), Num(<<"7">>)),
    Body(Str(<<" ", "B">>), Str(EmailDUpper), Undefined),
    Body(Str(<<"A">>), Str(EmailD), Str(<<"x">>)),
    Body(Undefined, Str(EmailA), Undefined),
    Body(Str(<<"A">>), Undefined, Undefined),
    Body(Str(<<"A">>), Str(<<"a", "b">>), Undefined),
    Body(Num(<<"5">>), Str(EmailD), Undefined),
    Body(Str(<<"A">>), Arr(EmailA), Undefined),
    Body(Str(<<" ">>), Str(EmailA), Undefined) }

DigitChar(n) ==
  CASE n = 0 -> "0" [] n = 1 -> "1" [] n = 2 -> "2" [] n = 3 -> "3"
    [] n = 4 -> "4" [] n = 5 -> "5" [] n = 6 -> "6" [] n = 7 -> "7"
    [] n = 8 -> "8" [] OTHER -> "9"

\* The :id path parameters tried: every id that can be handed out, a word,
\* and a number followed by a letter.
IdParams ==
  {<<DigitChar(n)>> : n \in 1..MaxCreates} \cup {<<"x">>, <<"1", "x">>}

NoBody == Body(Undefined, Undefined, Undefined)

\* What PUT is tried with: every body on id 1; on the other ids the bodies
\* with an integer age or none, a name and a well-formed e-mail string.
Updates ==
  {u \in IdParams \X Bodies :
     \/ u[1] = <<"1">>
     \/ /\ IsString(u[2].name) /\ trim(u[2].name.v) # <<>>
        /\ IsString(u[2].email) /\ isValidEmail(u[2].email)
        /\ u[2].age.t \in {"undefined", "number"}}

\* -------------------------------------------------------------------- state
VARIABLES
  fallbackMode,   \* global.fallbackMode (undefined, read as false, until set)
  users,          \* global.users: the fallback store, in insertion order
  nextId,         \* global.nextId (0 while undefined)
  table,          \* the rows of the PostgreSQL table users
  serial,         \* the last value of the sequence behind users.id
  initPc,         \* where initializeDatabase() is
  pending,        \* the queries request handlers are awaiting
  now,            \* the latest timestamp taken (new Date(), CURRENT_TIMESTAMP)
                  \* 0 before the first
  resp,           \* the response sent by the last step, if it sent one
  lastCreatedId,  \* history, per store: the greatest id a 201 has returned
  deletedIds,     \* history, per store: the ids whose DELETE was answered 200
  netCreated,     \* history, per store: the creates answered 201 less the
                  \* deletes answered 200
  databaseUrl,    \* process.env.DATABASE_URL ("" when it is not set)
  pool,           \* the pool's flags: ending (end() was called) and ended
  unhandled,      \* the routes whose handler's promise was rejected
  exited,         \* <<>> while the process runs, <<code>> after process.exit
  twin            \* the answer of the fallback process to the request the
                  \* persistent process is handling, when two processes are
                  \* fed the same requests (TwinSpec); unused otherwise

vars ==
  <<fallbackMode, users, nextId, table, serial, initPc, pending, now, resp,
    lastCreatedId, deletedIds, netCreated, databaseUrl, pool,
    exited, unhandled, twin>>

store == <<fallbackMode, users, nextId, table, serial>>

history == <<lastCreatedId, deletedIds, netCreated>>

\* What no step of the probe, and no handler that answers or awaits a
\* query, touches.
outside == <<databaseUrl, pool, exited, unhandled, twin>>

NoResp ==
  [op |-> "none", via |-> "none", id |-> <<>>, body |-> NoBody, status |-> 0,
   success |-> FALSE, error |-> "", message |-> "", user |-> <<>>,
   users |-> <<>>, count |-> 0, database |-> "", keys |-> {}]

\* The last response has gone out (see Forget).
Quiet == resp = NoResp

\* A slip: a failure body that also says success: false.
Failure_WithSuccessKey(op, via, id, body, status, error) ==
  [NoResp EXCEPT !.op = op, !.via = via, !.id = id, !.body = body,
                 !.status = status, !.error = error,
                 !.keys = {"success", "error"}]

\* res.status(status).json({error}); keys are the keys of the JSON body.
Failure(op, via, id, body, status, error) ==
  [NoResp EXCEPT !.op = op, !.via = via, !.id = id, !.body = body,
                 !.status = status, !.error = error, !.keys = {"error"}]

\* res.status(status).json({success: true, message, user}); GET sends no
\* message (given as "") and DELETE no user (given as <<>>).
Success(op, via, id, body, status, message, user) ==
  [NoResp EXCEPT !.op = op, !.via = via, !.id = id, !.body = body,
                 !.status = status, !.success = TRUE, !.message = message,
                 !.user = user,
                 !.keys = {"success"}
                          \cup (IF message = "" THEN {} ELSE {"message"})
                          \cup (IF user = <<>> THEN {} ELSE {"user"})]

\* connectionString: process.env.DATABASE_URL || "postgresql://..."
ConnectionString ==
  IF databaseUrl = "" THEN "postgresql://localhost:5432/users_db"
  ELSE databaseUrl

\* The state once the module is loaded: the pool is created, the probe's
\* first query is in flight (initializeDatabase() is called, not awaited),
\* and app.listen() accepts requests.  The table starts empty.
Started ==
  /\ fallbackMode = FALSE
  /\ users = <<>>
  /\ nextId = 0
  /\ table = {}
  /\ serial = 0
  /\ initPc = "create_table"
  /\ pending = <<>>
  /\ now = 0
  /\ resp = NoResp
  /\ lastCreatedId = [mem |-> 0, pg |-> 0]
  /\ deletedIds = [mem |-> {}, pg |-> {}]
  /\ netCreated = [mem |-> 0, pg |-> 0]
  /\ pool = [ending |-> FALSE, ended |-> FALSE]
  /\ exited = <<>>
  /\ unhandled = {}
  /\ twin = NoResp

\* The process started with DATABASE_URL set.
Init ==
  /\ Started
  /\ databaseUrl = "postgres://db.example:5432/users"

\* The process started with no DATABASE_URL in its environment.
DefaultUrlInit ==
  /\ Started
  /\ databaseUrl = ""

\* Ids handed out so far and those the pending INSERTs will take.
Allocated ==
  serial + (IF fallbackMode THEN nextId - 1 ELSE 0)
         + Cardinality({i \in 1..Len(pending) : pending[i].op = "create"})

\* ------------------------------------------------------ initializeDatabase
\* The catch block: the fallback store replaces the pool for good.
InitFallback ==
  /\ fallbackMode' = TRUE
  /\ users' = <<>>
  /\ nextId' = 1
  /\ initPc' = "done"

\* CREATE TABLE IF NOT EXISTS resolves, and SELECT COUNT(*) is sent; or it
\* rejects and the catch block runs.
InitCreateTable ==
  /\ Quiet
  /\ initPc = "create_table"
  /\ \/ /\ ConnectionString # ""
        /\ initPc' = "count"
        /\ UNCHANGED <<fallbackMode, users, nextId>>
     \/ InitFallback
  /\ resp' = NoResp
  /\ UNCHANGED <<table, serial, pending, now, history, outside>>

\* SELECT COUNT(*) resolves (the count is only logged) or rejects.
InitCount ==
  /\ Quiet
  /\ initPc = "count"
  /\ \/ /\ ConnectionString # ""
        /\ initPc' = "done"
        /\ UNCHANGED <<fallbackMode, users, nextId>>
     \/ InitFallback
  /\ resp' = NoResp
  /\ UNCHANGED <<table, serial, pending, now, history, outside>>

\* new Date() and CURRENT_TIMESTAMP: the clock reads what it read at the last
\* create (the same millisecond) or a later value.  Only the order of the
\* timestamps taken matters, so now is the latest value read (0 while none
\* was) and a later value is the next integer.
ClockReadings == IF now = 0 THEN {now + 1} ELSE {now, now + 1}

\* ------------------------------------------------------------ shared pieces
Max(a, b) == IF a > b THEN a ELSE b

Min(S) == CHOOSE x \in S : \A y \in S : x <= y

RemoveAt(seq, i) == SubSeq(seq, 1, i - 1) \o SubSeq(seq, i + 1, Len(seq))

Created(r) == r.op = "create" /\ r.status = 201

Deleted(r) == r.op = "delete" /\ r.status = 200

\* The response r is sent; the history variables take note of it.  k is the
\* id a successful DELETE removed (unused otherwise).
Send(r, k) ==
  /\ resp' = r
  /\ lastCreatedId' =
       IF Created(r)
       THEN [lastCreatedId EXCEPT ![r.via] = Max(@, r.user[1].id)]
       ELSE lastCreatedId
  /\ deletedIds' =
       IF Deleted(r) THEN [deletedIds EXCEPT ![r.via] = @ \cup {k}]
       ELSE deletedIds
  /\ netCreated' =
       CASE Created(r) -> [netCreated EXCEPT ![r.via] = @ + 1]
         [] Deleted(r) -> [netCreated EXCEPT ![r.via] = @ - 1]
         [] OTHER -> netCreated
  /\ UNCHANGED outside

\* The handler sends pool.query(...) and awaits it.  One request query is
\* followed at a time, next to the two queries of the start-up probe.
Issue(op, id, body) ==
  /\ pending = <<>>
  /\ pending' = Append(pending, [op |-> op, id |-> id, body |-> body])
  /\ resp' = NoResp
  /\ UNCHANGED <<store, initPc, now, history, outside>>

\* Only the test for required fields is made before the try block.
Validation_RequiredOnly(body) ==
  IF ~Truthy(body.name) \/ ~Truthy(body.email)
  THEN <<"Name and email are required">>
  ELSE <<>>

\* The checks both POST and PUT make before their try block; <<>> when the
\* body passes.
Validation(body) ==
  IF ~Truthy(body.name) \/ ~Truthy(body.email)
  THEN <<"Name and email are required">>
  ELSE IF ~isValidEmail(body.email) THEN <<"Invalid email format">>
  ELSE <<>>

\* The checks throw: name and email are truthy and isValidEmail(email) is
\* reached, where emailRegex.test(email) converts email to a string.
ValidationThrows(body) ==
  Truthy(body.name) /\ Truthy(body.email) /\ NoPrimitive(body.email)

\* An exception leaves the async handler outside its try block: the promise
\* the handler returned is rejected, nothing awaits it, and no response is
\* sent.
Rejected(op) ==
  /\ unhandled' = unhandled \cup {op}
  /\ resp' = NoResp
  /\ UNCHANGED <<store, initPc, pending, now, history, databaseUrl, pool,
                 exited, twin>>

\* age ? parseInt(age) : null
AgeInMemory(age) == IF Truthy(age) THEN parseInt(age) ELSE Null

\* ------------------------------------------------------- the fallback store
\* users.findIndex((u) => u.id === parseInt(userId)), 0 for -1.
FindIndexById(us, userId) ==
  LET k == parseInt(Str(userId))
      S == {i \in 1..Len(us) : k.k = "int" /\ us[i].id = k.n}
  IN IF S = {} THEN 0 ELSE Min(S)

\* A slip: the duplicate check made on a copy of the users taken earlier,
\* here before any user was there.
FindByEmail_Stale(us, email) == FALSE

\* A slip: the e-mail of the request compared as it was sent.
FindByEmail_CaseSensitive(us, email) ==
  \E i \in 1..Len(us) : us[i].email = email

\* users.find((u) => u.email.toLowerCase() === email.toLowerCase())
FindByEmail(us, email) ==
  \E i \in 1..Len(us) : toLowerCase(us[i].email) = toLowerCase(email)

\* A slip: the e-mail of the request compared as it was sent.
FindOtherByEmail_CaseSensitive(us, email, userId) ==
  LET k == parseInt(Str(userId)) IN
  \E i \in 1..Len(us) :
    /\ us[i].email = email
    /\ ~(k.k = "int" /\ us[i].id = k.n)

\* A slip: the user being updated is not left out of the search.
FindOtherByEmail_IncludingSelf(us, email, userId) ==
  \E i \in 1..Len(us) : toLowerCase(us[i].email) = toLowerCase(email)

\* users.find((u) => u.email.toLowerCase() === email.toLowerCase() &&
\*                   u.id !== parseInt(userId))
FindOtherByEmail(us, email, userId) ==
  LET k == parseInt(Str(userId)) IN
  \E i \in 1..Len(us) :
    /\ toLowerCase(us[i].email) = toLowerCase(email)
    /\ ~(k.k = "int" /\ us[i].id = k.n)

\* The find callbacks call email.toLowerCase(): a TypeError when a user is
\* there to compare with and email is not a string.
FindThrows(us, email) == us # <<>> /\ ~IsString(email)

\* A slip: the comparator the other way round, a - b (oldest first).
RECURSIVE InsertByCreatedAt_Ascending(_, _)
InsertByCreatedAt_Ascending(sorted, u) ==
  IF sorted = <<>> THEN <<u>>
  ELSE IF Head(sorted).created_at <= u.created_at
       THEN <<Head(sorted)>> \o InsertByCreatedAt_Ascending(Tail(sorted), u)
       ELSE <<u>> \o sorted

\* One step of the stable sort: u, which comes after the users of sorted in
\* the array, goes behind those with a created_at at least its own.
RECURSIVE InsertByCreatedAt(_, _)
InsertByCreatedAt(sorted, u) ==
  IF sorted = <<>> THEN <<u>>
  ELSE IF Head(sorted).created_at >= u.created_at
       THEN <<Head(sorted)>> \o InsertByCreatedAt(Tail(sorted), u)
       ELSE <<u>> \o sorted

\* [...users].sort((a, b) => new Date(b.created_at) - new Date(a.created_at)):
\* Array.prototype.sort is stable, so users with equal created_at keep their
\* order in the array.
RECURSIVE SortByCreatedAtDesc(_)
SortByCreatedAtDesc(us) ==
  IF us = <<>> THEN <<>>
  ELSE InsertByCreatedAt(SortByCreatedAtDesc(SubSeq(us, 1, Len(us) - 1)),
                         us[Len(us)])

\* A slip: the id taken from the number of users held.
AllocatedId_FromLength == Len(users) + 1

\* id: global.nextId++ gives the value before the increment.
AllocatedId == nextId

\* A slip: users.pop(), the last user removed whatever the index.
Splice_LastElement(us, i) == SubSeq(us, 1, Len(us) - 1)

\* A slip: users.splice(userIndex), which removes up to the end of the array.
Splice_ToEnd(us, i) == SubSeq(us, 1, i - 1)

\* users.splice(userIndex, 1)
Splice(us, i) == SubSeq(us, 1, i - 1) \o SubSeq(us, i + 1, Len(us))

\* The object literal of POST, evaluated after global.nextId++; t is what
\* new Date() reads.
NewUser(id, body, t) ==
  [id |-> id, name |-> trim(body.name.v),
   email |-> toLowerCase(trim(body.email.v)), age |-> AgeInMemory(body.age),
   created_at |-> t]

\* A slip: the object built anew, created_at taken from the clock.
Replaced_FreshCreatedAt(u, body) ==
  [id |-> u.id, name |-> trim(body.name.v),
   email |-> toLowerCase(trim(body.email.v)), age |-> AgeInMemory(body.age),
   created_at |-> now + 1]

\* {...users[userIndex], name, email, age}
Replaced(u, body) ==
  [u EXCEPT !.name = trim(body.name.v),
            !.email = toLowerCase(trim(body.email.v)),
            !.age = AgeInMemory(body.age)]

\* ---------------------------------------------------------------- handlers
\* A handler that answers without awaiting and without touching a store.
Answer(r) ==
  /\ Send(r, 0)
  /\ UNCHANGED <<store, initPc, pending, now>>

\* A slip: the handler without its fallback branch.
GetUsers_NoFlagCheck ==
  /\ Quiet
  /\ Issue("list", <<>>, NoBody)

\* GET /api/users
GetUsers ==
  /\ Quiet
  /\ IF fallbackMode
     THEN Answer([NoResp EXCEPT !.op = "list", !.via = "mem", !.status = 200,
                                !.success = TRUE,
                                !.users = SortByCreatedAtDesc(users),
                                !.count = Len(users),
                                !.keys = {"success", "users", "count"}])
     ELSE Issue("list", <<>>, NoBody)

\* GET /api/users/:id
GetUser(id) ==
  /\ Quiet
  /\ IF fallbackMode
     THEN LET i == FindIndexById(users, id) IN
          IF i = 0
          THEN Answer(Failure("get", "mem", id, NoBody, 404, "User not found"))
          ELSE Answer(Success("get", "mem", id, NoBody, 200, "", <<users[i]>>))
     ELSE Issue("get", id, NoBody)

\* POST /api/users
CreateUser(body) ==
  /\ Quiet
  /\ LET invalid == Validation(body)
         throws == ~IsString(body.name) \/ ~IsString(body.email)
         failed == Failure("create", "mem", <<>>, body, 500,
                           "Failed to create user")
     IN
     IF ValidationThrows(body)
     THEN Rejected("create")
     ELSE IF invalid # <<>>
     THEN Answer(Failure("create", "none", <<>>, body, 400, invalid[1]))
     ELSE IF fallbackMode
     THEN IF FindThrows(users, body.email)
          THEN Answer(failed)
          ELSE IF FindByEmail(users, body.email.v)
          THEN Answer(Failure("create", "mem", <<>>, body, 400,
                              "Email already exists"))
          ELSE \* global.nextId++ comes first in the object literal, then
               \* name.trim() and email.trim(), which may throw
               /\ Allocated < MaxCreates
               /\ nextId' = nextId + 1
               /\ IF throws
                  THEN /\ users' = users
                       /\ now' = now
                       /\ Send(failed, 0)
                  ELSE \E t \in ClockReadings :
                         /\ users' = Append(users,
                                           NewUser(AllocatedId, body, t))
                         /\ now' = t
                         /\ Send(Success("create", "mem", <<>>, body, 201,
                                         "User created successfully",
                                         <<NewUser(AllocatedId, body, t)>>),
                                 0)
               /\ UNCHANGED <<fallbackMode, table, serial, initPc, pending>>
     ELSE IF throws
     THEN \* building the parameter list throws inside the try block
          Answer(Failure("create", "none", <<>>, body, 500,
                         "Failed to create user"))
     ELSE /\ Allocated < MaxCreates
          /\ Issue("create", <<>>, body)

\* PUT /api/users/:id
UpdateUser(id, body) ==
  /\ Quiet
  /\ LET invalid == Validation(body)
         i == FindIndexById(users, id)
         failed == Failure("update", "mem", id, body, 500,
                           "Failed to update user")
     IN
     IF ValidationThrows(body)
     THEN Rejected("update")
     ELSE IF invalid # <<>>
     THEN Answer(Failure("update", "none", id, body, 400, invalid[1]))
     ELSE IF fallbackMode
     THEN IF i = 0
          THEN Answer(Failure("update", "mem", id, body, 404, "User not found"))
          ELSE IF FindThrows(users, body.email)
          THEN Answer(failed)
          ELSE IF FindOtherByEmail(users, body.email.v, id)
          THEN Answer(Failure("update", "mem", id, body, 400,
                              "Email already exists"))
          ELSE IF ~IsString(body.name)
          THEN Answer(failed)
          ELSE /\ users' = [users EXCEPT ![i] = Replaced(users[i], body)]
               /\ Send(Success("update", "mem", id, body, 200,
                               "User updated successfully",
                               <<Replaced(users[i], body)>>), 0)
               /\ UNCHANGED <<fallbackMode, nextId, table, serial, initPc,
                              pending, now>>
     ELSE IF ~IsString(body.name) \/ ~IsString(body.email)
     THEN Answer(Failure("update", "none", id, body, 500,
                         "Failed to update user"))
     ELSE Issue("update", id, body)

\* DELETE /api/users/:id
DeleteUser(id) ==
  /\ Quiet
  /\ IF fallbackMode
     THEN LET i == FindIndexById(users, id) IN
          IF i = 0
          THEN Answer(Failure("delete", "mem", id, NoBody, 404,
                              "User not found"))
          ELSE /\ users' = Splice(users, i)
               /\ Send(Success("delete", "mem", id, NoBody, 200,
                               "User deleted successfully", <<>>), users[i].id)
               /\ UNCHANGED <<fallbackMode, nextId, table, serial, initPc,
                              pending, now>>
     ELSE Issue("delete", id, NoBody)

\* res.json of GET /api/health, in the try block and in the catch block.
HealthReport(via, message, database, userCount) ==
  [NoResp EXCEPT !.op = "health", !.via = via, !.status = 200,
                 !.success = TRUE, !.message = message,
                 !.database = database, !.count = userCount,
                 !.keys = {"success", "message", "timestamp", "version",
                           "database", "userCount"}]

\* A slip: a catch block like that of the other routes.
HealthDegraded_500 ==
  Failure("health", "pg", <<>>, NoBody, 500, "Health check failed")

\* The catch block of GET /api/health.
HealthDegraded ==
  HealthReport("pg", "API is running (database connection issue)",
               "Connection Error", 0)

\* GET /api/health
Health ==
  /\ Quiet
  /\ IF fallbackMode
     THEN Answer(HealthReport("mem", "API is running with database",
                              "In-Memory (Fallback)", Len(users)))
     ELSE Issue("health", <<>>, NoBody)

\* --------------------------------------------------- the PostgreSQL table
\* age || null, bound to the INTEGER column: NaN stands for error 22P02.
AgeParam(age) == IF Truthy(age) THEN PgInteger(age) ELSE Null

\* INSERT ... RETURNING *: the row with its id and created_at defaults.
InsertedRow(id, body, t) ==
  [id |-> id, name |-> trim(body.name.v),
   email |-> toLowerCase(trim(body.email.v)), age |-> AgeParam(body.age),
   created_at |-> t]

\* UPDATE ... SET name = $1, email = $2, age = $3
UpdatedRow(row, body) ==
  [row EXCEPT !.name = trim(body.name.v),
              !.email = toLowerCase(trim(body.email.v)),
              !.age = AgeParam(body.age)]

\* WHERE id = $1, the parameter being the path's text
RowsWithId(id) ==
  {row \in table : PgInteger(Str(id)).k = "int" /\ row.id = PgInteger(Str(id)).n}

\* email VARCHAR(255) UNIQUE: another row holds this value (error 23505).
UniqueViolation(email, except) ==
  \E row \in table \ except : row.email = email

\* ORDER BY created_at DESC: any order of the rows in which created_at never
\* increases (rows with equal created_at come in an order the server picks).
OrderedByCreatedAtDesc ==
  {rows \in [1..Cardinality(table) -> table] :
     /\ \A i, j \in 1..Cardinality(table) : i # j => rows[i] # rows[j]
     /\ \A i, j \in 1..Cardinality(table) :
          i < j => rows[i].created_at >= rows[j].created_at}

\* The text of the catch block of each handler.
FailedTo(op) ==
  CASE op = "list" -> "Failed to fetch users"
    [] op = "get" -> "Failed to fetch user"
    [] op = "create" -> "Failed to create user"
    [] op = "update" -> "Failed to update user"
    [] OTHER -> "Failed to delete user"

\* The awaited query settles and the handler resumes: the query leaves the
\* pending ones and the response r goes out.
Settle(i, r, k) ==
  /\ pending' = RemoveAt(pending, i)
  /\ Send(r, k)
  /\ UNCHANGED <<fallbackMode, users, nextId, initPc>>

\* The query is rejected without a PostgreSQL error code (no connection,
\* no table): the catch block answers 500, the health check answers 200.
QueryFails(i) ==
  LET q == pending[i] IN
  /\ Quiet
  /\ Settle(i, IF q.op = "health" THEN HealthDegraded
               ELSE Failure(q.op, "pg", q.id, q.body, 500, FailedTo(q.op)), 0)
  /\ UNCHANGED <<table, serial, now>>

\* SELECT * FROM users ORDER BY created_at DESC
ListQuery(i) ==
  /\ Quiet
  /\ pending[i].op = "list"
  /\ \E rows \in OrderedByCreatedAtDesc :
       Settle(i, [NoResp EXCEPT !.op = "list", !.via = "pg", !.status = 200,
                                !.success = TRUE, !.users = rows,
                                !.count = Len(rows),
                                !.keys = {"success", "users", "count"}], 0)
  /\ UNCHANGED <<table, serial, now>>

\* SELECT * FROM users WHERE id = $1
GetQuery(i) ==
  LET q == pending[i] IN
  /\ Quiet
  /\ q.op = "get"
  /\ IF PgInteger(Str(q.id)) = NaN
     THEN Settle(i, Failure("get", "pg", q.id, q.body, 500, FailedTo("get")), 0)
     ELSE IF RowsWithId(q.id) = {}
     THEN Settle(i, Failure("get", "pg", q.id, q.body, 404, "User not found"), 0)
     ELSE \E row \in RowsWithId(q.id) :
            Settle(i, Success("get", "pg", q.id, q.body, 200, "", <<row>>), 0)
  /\ UNCHANGED <<table, serial, now>>

\* INSERT INTO users (name, email, age) VALUES ($1, $2, $3) RETURNING *.
\* A parameter that is no integer fails before the statement runs; the id
\* default takes the next value of the sequence before the UNIQUE constraint
\* is checked, so a rejected duplicate uses an id up.
InsertQuery(i) ==
  LET q == pending[i] IN
  /\ Quiet
  /\ q.op = "create"
  /\ IF AgeParam(q.body.age) = NaN
     THEN /\ Settle(i, Failure("create", "pg", q.id, q.body, 500,
                               FailedTo("create")), 0)
          /\ UNCHANGED <<table, serial, now>>
     ELSE /\ serial' = serial + 1
          /\ IF UniqueViolation(InsertedRow(serial + 1, q.body, now).email, {})
             THEN /\ Settle(i, Failure("create", "pg", q.id, q.body, 400,
                                       "Email already exists"), 0)
                  /\ UNCHANGED <<table, now>>
             ELSE \E t \in ClockReadings :
                    /\ Settle(i, Success("create", "pg", q.id, q.body, 201,
                                         "User created successfully",
                                         <<InsertedRow(serial + 1, q.body, t)>>),
                              0)
                    /\ table' = table \cup {InsertedRow(serial + 1, q.body, t)}
                    /\ now' = t

\* UPDATE users SET ... WHERE id = $4 RETURNING *
UpdateQuery(i) ==
  LET q == pending[i] IN
  /\ Quiet
  /\ q.op = "update"
  /\ IF AgeParam(q.body.age) = NaN \/ PgInteger(Str(q.id)) = NaN
     THEN /\ Settle(i, Failure("update", "pg", q.id, q.body, 500,
                               FailedTo("update")), 0)
          /\ table' = table
     ELSE IF RowsWithId(q.id) = {}
     THEN /\ Settle(i, Failure("update", "pg", q.id, q.body, 404,
                               "User not found"), 0)
          /\ table' = table
     ELSE \E row \in RowsWithId(q.id) :
            IF UniqueViolation(UpdatedRow(row, q.body).email, {row})
            THEN /\ Settle(i, Failure("update", "pg", q.id, q.body, 400,
                                      "Email already exists"), 0)
                 /\ table' = table
            ELSE /\ Settle(i, Success("update", "pg", q.id, q.body, 200,
                                      "User updated successfully",
                                      <<UpdatedRow(row, q.body)>>), 0)
                 /\ table' = (table \ {row}) \cup {UpdatedRow(row, q.body)}
  /\ UNCHANGED <<serial, now>>

\* DELETE FROM users WHERE id = $1 RETURNING id
DeleteQuery(i) ==
  LET q == pending[i] IN
  /\ Quiet
  /\ q.op = "delete"
  /\ IF PgInteger(Str(q.id)) = NaN
     THEN /\ Settle(i, Failure("delete", "pg", q.id, q.body, 500,
                               FailedTo("delete")), 0)
          /\ table' = table
     ELSE IF RowsWithId(q.id) = {}
     THEN /\ Settle(i, Failure("delete", "pg", q.id, q.body, 404,
                               "User not found"), 0)
          /\ table' = table
     ELSE \E row \in RowsWithId(q.id) :
            /\ Settle(i, Success("delete", "pg", q.id, q.body, 200,
                                 "User deleted successfully", <<>>), row.id)
            /\ table' = table \ {row}
  /\ UNCHANGED <<serial, now>>

\* SELECT COUNT(*) FROM users, for the health check
CountQuery(i) ==
  /\ Quiet
  /\ pending[i].op = "health"
  /\ Settle(i, HealthReport("pg", "API is running with database",
                            "PostgreSQL", Cardinality(table)), 0)
  /\ UNCHANGED <<table, serial, now>>

\* app.use("/api/*"): a path under /api that no route matches.
ApiNotFound ==
  /\ Quiet
  /\ Answer(Failure("unmatched", "none", <<>>, NoBody, 404,
                    "API endpoint not found"))

\* The error-handling middleware: a body that bodyParser.json() cannot parse
\* reaches it before any route runs.
UnhandledError ==
  /\ Quiet
  /\ Answer(Failure("unparsed", "none", <<>>, NoBody, 500,
                    "Internal server error"))

\* -------------------------------------------------------- the whole system
\* The response of the last step has gone out to its client.  No step reads
\* resp: it is there to be observed in the state right after the step that
\* sent it, and every other step waits until it is dropped (Quiet).
Forget ==
  /\ resp # NoResp
  /\ resp' = NoResp
  /\ UNCHANGED <<store, initPc, pending, now, history, outside>>

Next ==
  \/ Forget
  \/ InitCreateTable
  \/ InitCount
  \/ GetUsers
  \/ \E id \in IdParams : GetUser(id)
  \/ \E body \in Bodies : CreateUser(body)
  \/ \E u \in Updates : UpdateUser(u[1], u[2])
  \/ \E id \in IdParams : DeleteUser(id)
  \/ Health
  \/ ApiNotFound
  \/ UnhandledError
  \/ \E i \in 1..Len(pending) : QueryFails(i)
  \/ \E i \in 1..Len(pending) : ListQuery(i)
  \/ \E i \in 1..Len(pending) : GetQuery(i)
  \/ \E i \in 1..Len(pending) : InsertQuery(i)
  \/ \E i \in 1..Len(pending) : UpdateQuery(i)
  \/ \E i \in 1..Len(pending) : DeleteQuery(i)
  \/ \E i \in 1..Len(pending) : CountQuery(i)

Spec == Init /\ [][Next]_vars

\* ------------------------------------------------- two processes, side by side
\* Two processes are fed the same requests, one after another: one whose
\* probe failed at start-up (global.users, global.nextId) and one whose
\* probe succeeded (table, serial), with no backend error.  The state holds
\* the stores of both; fallbackMode is the flag of the process that takes
\* the next step.  The fallback process answers a request first, its answer
\* is kept in twin, and the persistent process then answers the same request.
TwinInit ==
  /\ fallbackMode = TRUE
  /\ users = <<>>
  /\ nextId = 1
  /\ table = {}
  /\ serial = 0
  /\ initPc = "done"
  /\ pending = <<>>
  /\ now = 0
  /\ resp = NoResp
  /\ lastCreatedId = [mem |-> 0, pg |-> 0]
  /\ deletedIds = [mem |-> {}, pg |-> {}]
  /\ netCreated = [mem |-> 0, pg |-> 0]
  /\ databaseUrl = "postgres://db.example:5432/users"
  /\ pool = [ending |-> FALSE, ended |-> FALSE]
  /\ exited = <<>>
  /\ unhandled = {}
  /\ twin = NoResp

\* The fallback process handles the next request.
TwinMemServes ==
  /\ fallbackMode
  /\ twin = NoResp
  /\ \/ GetUsers
     \/ \E id \in IdParams : GetUser(id)
     \/ \E body \in Bodies : CreateUser(body)
     \/ \E u \in Updates : UpdateUser(u[1], u[2])
     \/ \E id \in IdParams : DeleteUser(id)

\* The answer of the fallback process is kept and the same request goes to
\* the persistent process.
TwinTurn ==
  /\ fallbackMode
  /\ resp # NoResp
  /\ twin' = resp
  /\ fallbackMode' = FALSE
  /\ resp' = NoResp
  /\ UNCHANGED <<users, nextId, table, serial, initPc, pending, now, history,
                 databaseUrl, pool, exited, unhandled>>

\* The persistent process handles the request twin answers.
TwinPgServes ==
  /\ ~fallbackMode
  /\ twin # NoResp
  /\ pending = <<>>
  /\ CASE twin.op = "list" -> GetUsers
       [] twin.op = "get" -> GetUser(twin.id)
       [] twin.op = "create" -> CreateUser(twin.body)
       [] twin.op = "update" -> UpdateUser(twin.id, twin.body)
       [] OTHER -> DeleteUser(twin.id)

\* Its query is carried out.
TwinPgQuery ==
  /\ ~fallbackMode
  /\ \E i \in 1..Len(pending) :
       \/ ListQuery(i)
       \/ GetQuery(i)
       \/ InsertQuery(i)
       \/ UpdateQuery(i)
       \/ DeleteQuery(i)

\* Both have answered: on to the next request.
TwinDone ==
  /\ ~fallbackMode
  /\ resp # NoResp
  /\ twin' = NoResp
  /\ fallbackMode' = TRUE
  /\ resp' = NoResp
  /\ UNCHANGED <<users, nextId, table, serial, initPc, pending, now, history,
                 databaseUrl, pool, exited, unhandled>>

TwinNext ==
  \/ TwinMemServes
  \/ TwinTurn
  \/ TwinPgServes
  \/ TwinPgQuery
  \/ TwinDone

TwinSpec == TwinInit /\ [][TwinNext]_vars

\* The service started without DATABASE_URL.
DefaultUrlSpec == DefaultUrlInit /\ [][Next]_vars

\* ---------------------------------------------------------------------------
\* Shutdown.  process.on("SIGINT", ...) runs its listener at every interrupt
\* signal.  The listener calls pool.end(callback) and the callback calls
\* process.exit(0).  pool.end() of pg-pool sets the pool's ending flag and
\* calls back once no client is checked out; called on a pool that is already
\* ending, it calls back at once with the error "Called end on pool more than
\* once".  The callback ignores its argument.

\* A client is checked out (or connecting) for every query in flight.
Busy == pending # <<>> \/ initPc # "done"

\* One interrupt signal is delivered and the listener runs.
Sigint ==
  /\ Quiet
  /\ exited = <<>>
  /\ IF pool.ending
     THEN /\ pool' = pool
          /\ exited' = <<0>>
     ELSE IF Busy
     THEN /\ pool' = [ending |-> TRUE, ended |-> FALSE]
          /\ exited' = exited
     ELSE /\ pool' = [ending |-> TRUE, ended |-> TRUE]
          /\ exited' = <<0>>
  /\ UNCHANGED <<store, initPc, pending, now, resp, history, databaseUrl,
                 unhandled, twin>>

\* The last client is released: the ending pool is ended and the callback
\* of the first pool.end() runs.
PoolEnded ==
  /\ Quiet
  /\ exited = <<>>
  /\ pool.ending /\ ~pool.ended
  /\ ~Busy
  /\ pool' = [ending |-> TRUE, ended |-> TRUE]
  /\ exited' = <<0>>
  /\ UNCHANGED <<store, initPc, pending, now, resp, history, databaseUrl,
                 unhandled, twin>>

\* The probe's query in flight settles while the pool is ending.  A query
\* sent to an ending pool is rejected, so when CREATE TABLE resolves the
\* SELECT COUNT(*) that follows it rejects and the catch block runs.
DrainProbe ==
  /\ Quiet
  /\ initPc # "done"
  /\ \/ /\ initPc = "count"
        /\ initPc' = "done"
        /\ UNCHANGED <<fallbackMode, users, nextId>>
     \/ InitFallback
  /\ resp' = NoResp
  /\ UNCHANGED <<table, serial, pending, now, history, outside>>

\* What still happens between the first signal and the exit: the queries in
\* flight settle and their handlers answer.  Requests that arrive after the
\* first signal are not followed.
Drain ==
  \/ Forget
  \/ DrainProbe
  \/ \E i \in 1..Len(pending) : QueryFails(i)
  \/ \E i \in 1..Len(pending) : ListQuery(i)
  \/ \E i \in 1..Len(pending) : GetQuery(i)
  \/ \E i \in 1..Len(pending) : InsertQuery(i)
  \/ \E i \in 1..Len(pending) : UpdateQuery(i)
  \/ \E i \in 1..Len(pending) : DeleteQuery(i)
  \/ \E i \in 1..Len(pending) : CountQuery(i)

ShutdownNext ==
  \/ ~pool.ending /\ Next
  \/ Sigint
  \/ PoolEnded
  \/ pool.ending /\ exited = <<>> /\ Drain

ShutdownSpec == Init /\ [][ShutdownNext]_vars

\* ---------------------------------------------------------------------------
\* The dashboard (public/js/main.js).  Its handlers keep no state the server
\* sees: each is the request it sends, served by the route it addresses.

\* What is typed into the name field of the add form and of the edit form.
FormNames == {<<"A">>, <<" ", "B">>}

\* userData = { name: formData.get("name").trim() }, sent as JSON
AddUserData(name) == Body(Str(trim(name)), Undefined, Undefined)

\* userData = { name: document.getElementById("editName").value.trim() }
EditUserData(name) == Body(Str(trim(name)), Undefined, Undefined)

\* The value of the hidden field editUserId: the id of a listed user.
EditUserIds == {<<DigitChar(n)>> : n \in 1..MaxCreates}

\* fetch(`${API_BASE}/users`, { method: "POST", body: userData })
HandleAddUser(name) == CreateUser(AddUserData(name))

\* fetch(`${API_BASE}/users/${userId}`, { method: "PUT", body: userData })
HandleEditUser(userId, name) == UpdateUser(userId, EditUserData(name))

\* fetch(`${API_BASE}/users`): on page load, after a successful submit, and
\* from the "Try Again" button.
LoadUsers == GetUsers

\* The service with the dashboard open next to other API clients.
DashboardNext ==
  \/ Next
  \/ \E name \in FormNames : HandleAddUser(name)
  \/ \E userId \in EditUserIds : \E name \in FormNames :
       HandleEditUser(userId, name)
  \/ LoadUsers

DashboardSpec == Init /\ [][DashboardNext]_vars

\* ---------------------------------------------------------------------------
\* Bodies with a field that is a JSON object.  bodyParser.json() accepts any
\* JSON object as req.body, so a field may itself be an object.
ObjectBodies == {Body(Str(<<"A">>), Obj, Undefined)}

\* The service with clients that also send such bodies.
AnyJsonNext ==
  \/ Next
  \/ \E body \in ObjectBodies : CreateUser(body)
  \/ \E body \in ObjectBodies : UpdateUser(<<"1">>, body)

AnyJsonSpec == Init /\ [][AnyJsonNext]_vars

\* ----------------------------------------------------------------- properties
\* Two e-mail addresses are equal when the case of their letters is ignored.
SameIgnoringCase(s, t) ==
  /\ Len(s) = Len(t)
  /\ \A i \in 1..Len(s) : LowerChar(s[i]) = LowerChar(t[i])

\* The users a store holds: "mem" is the fallback store, "pg" the table.
Held(via) ==
  CASE via = "mem" -> {users[i] : i \in 1..Len(users)}
    [] via = "pg" -> table
    [] OTHER -> {}

\* A body with the types the API documents: name and email are strings,
\* age is a number or is left out.
WellTyped(body) ==
  /\ body.name.t = "string"
  /\ body.email.t = "string"
  /\ body.age.t \in {"undefined", "number"}

\* The path parameter that names id k.
IdText(k) == <<DigitChar(k)>>

\* A step in which the awaited query is rejected: a backend error, which
\* every route but the health check answers with 500.
BackendError == \E i \in 1..Len(pending) : QueryFails(i)

\* C1: in every state, no two users held by the active backend (the fallback
\* store once fallbackMode is set, the table before) have e-mails that are
\* equal when compared case-insensitively.  Requests are handled one after
\* another: a handler's query settles before the next request is taken.
C1_EmailsUnique ==
  /\ fallbackMode =>
       \A i, j \in 1..Len(users) :
         SameIgnoringCase(users[i].email, users[j].email) => i = j
  /\ ~fallbackMode =>
       \A u, v \in table : SameIgnoringCase(u.email, v.email) => u = v

\* The fallback store holds two users and has just turned down an update
\* that would have given one of them the address of the other.
C1_Witness ==
  /\ fallbackMode
  /\ Len(users) = 2
  /\ resp.op = "update"
  /\ resp.status = 400
  /\ resp.error = "Email already exists"

\* C2: a create request that passes validation, with a well-typed body, whose
\* e-mail equals but for letter case the e-mail of a user the store it is put
\* to holds, adds no user to either store and, unless the query itself is
\* rejected by a backend error, is answered 400 "Email already exists" --
\* by the fallback store and by the table alike.
C2_DuplicateCreateRejected ==
  [][LET r == resp' IN
     (/\ r.op = "create"
      /\ r.via # "none"
      /\ WellTyped(r.body)
      /\ \E u \in Held(r.via) : SameIgnoringCase(u.email, r.body.email.v))
     => /\ users' = users
        /\ table' = table
        /\ ~BackendError =>
             r.status = 400 /\ r.error = "Email already exists"]_vars

\* The table holds d@b.c and an INSERT of D@b.c has just been answered 400.
C2_Witness ==
  /\ resp.op = "create"
  /\ resp.via = "pg"
  /\ resp.status = 400
  /\ resp.error = "Email already exists"
  /\ resp.body.email.v = EmailDUpper
  /\ \E u \in table : u.email = EmailD

\* C3: an update with a well-typed body that passes validation, addressed to
\* a user U the store holds and not cut short by a backend error, is answered
\* 400 "Email already exists", the stores unchanged, when the new e-mail
\* equals but for letter case the e-mail of a user of that store other than
\* U, and is answered 200 when it equals U's own e-mail.
C3_UpdateConflict ==
  [][LET r == resp' IN
     (r.op = "update" /\ WellTyped(r.body) /\ ~BackendError)
     => \A U \in Held(r.via) :
          r.id = IdText(U.id)
          => /\ (\E V \in Held(r.via) :
                    /\ V.id # U.id
                    /\ SameIgnoringCase(V.email, r.body.email.v))
                => /\ r.status = 400
                   /\ r.error = "Email already exists"
                   /\ users' = users
                   /\ table' = table
             /\ SameIgnoringCase(U.email, r.body.email.v) => r.status = 200]_vars

\* The table holds a@b.c and d@b.c, and the update of user 2 to the address
\* of user 1 has just been answered 400.
C3_Witness ==
  /\ resp.op = "update"
  /\ resp.via = "pg"
  /\ resp.status = 400
  /\ resp.error = "Email already exists"
  /\ resp.id = IdText(2)
  /\ \E U, V \in table :
       U.id = 2 /\ V.id # 2 /\ SameIgnoringCase(V.email, resp.body.email.v)

\* C4: within one store (the table, the fallback store), the id a successful
\* create returns is strictly greater than the id every earlier successful
\* create of that store returned, whether or not the users holding those ids
\* are still there.
C4_IdsIncrease ==
  [][Created(resp') => resp'.user[1].id > lastCreatedId[resp'.via]]_vars

\* The fallback store has handed out id 1, deleted that user, and has just
\* created the next user, the only one it holds, with id 2.
C4_Witness ==
  /\ Created(resp)
  /\ resp.via = "mem"
  /\ resp.user[1].id = 2
  /\ 1 \in deletedIds.mem
  /\ Len(users) = 1

\* C5: once a store has answered 200 to the DELETE of id k, every later GET,
\* PUT (with a body that passes validation and is well typed) and DELETE
\* that store serves for id k is answered 404 "User not found", unless a
\* backend error cuts it short, whatever was created since.
C5_DeletedStaysGone ==
  [][LET r == resp' IN
     (/\ r.op \in {"get", "update", "delete"}
      /\ r.via \in {"mem", "pg"}
      /\ r.op = "update" => WellTyped(r.body)
      /\ \E k \in deletedIds[r.via] : r.id = IdText(k)
      /\ ~BackendError)
     => r.status = 404 /\ r.error = "User not found"]_vars

\* The table held users 1 and 2, user 1 was deleted, and a GET of id 1 has
\* just been answered 404 while user 2 is still there.
C5_Witness ==
  /\ resp.op = "get"
  /\ resp.via = "pg"
  /\ resp.id = IdText(1)
  /\ resp.status = 404
  /\ 1 \in deletedIds.pg
  /\ \E u \in table : u.id = 2

\* C6: a store starts empty, and whenever GET /api/users is answered 200 from
\* it, the list has as many users as the store answered creates with 201
\* less the deletes it answered with 200, and count is that number.
C6_ListCount ==
  (resp.op = "list" /\ resp.status = 200)
  => /\ Len(resp.users) = netCreated[resp.via]
     /\ resp.count = netCreated[resp.via]

\* Two creates and one delete in the fallback store, and the list of one
\* user has just been sent.
C6_Witness ==
  /\ resp.op = "list"
  /\ resp.via = "mem"
  /\ resp.status = 200
  /\ resp.count = 1
  /\ lastCreatedId.mem = 2
  /\ deletedIds.mem # {}

\* C7, as claimed: GET /api/users lists the users of a store newest first --
\* of any two users the one created later (the greater id) comes first, also
\* when the two creates received the same timestamp value.
C7_LaterCreateFirst ==
  (resp.op = "list" /\ resp.status = 200)
  => \A i, j \in 1..Len(resp.users) :
       i < j => resp.users[i].id > resp.users[j].id

\* C7, amended: GET /api/users lists the users of a store by created_at,
\* latest first: of two users with different created_at values the one
\* created later comes first.  Two users whose creates received the same
\* timestamp value are listed by the fallback store in creation order (the
\* earlier create first) and by the table in the order the database picks.
C7_OrderedByCreatedAt ==
  (resp.op = "list" /\ resp.status = 200)
  => \A i, j \in 1..Len(resp.users) :
       i < j =>
         LET a == resp.users[i]
             b == resp.users[j]
         IN /\ a.created_at >= b.created_at
            /\ a.created_at > b.created_at => a.id > b.id
            /\ (resp.via = "mem" /\ a.created_at = b.created_at) => a.id < b.id

\* The fallback store has just listed two users created in the same
\* millisecond, the earlier one first.
C7_Witness ==
  /\ resp.op = "list"
  /\ resp.via = "mem"
  /\ resp.status = 200
  /\ Len(resp.users) = 2
  /\ resp.users[1].created_at = resp.users[2].created_at
  /\ resp.users[1].id < resp.users[2].id

\* C8: an update answered 200 replaces, in the store that served it, the
\* user the path names by the user of the response, which has the id and the
\* created_at that user had before; every other user of that store, and the
\* other store, stay as they were.  (Ids have one digit here; the fallback
\* store reads the id off the front of the path parameter.)
C8_UpdateFrame ==
  [][LET r == resp' IN
     (r.op = "update" /\ r.status = 200)
     => IF r.via = "mem"
        THEN /\ table' = table
             /\ Len(users') = Len(users)
             /\ \E i \in 1..Len(users) :
                  /\ Head(r.id) = DigitChar(users[i].id)
                  /\ users'[i] = r.user[1]
                  /\ users'[i].id = users[i].id
                  /\ users'[i].created_at = users[i].created_at
                  /\ \A j \in 1..Len(users) : j # i => users'[j] = users[j]
        ELSE /\ users' = users
             /\ \E row \in table :
                  /\ r.id = IdText(row.id)
                  /\ r.user[1].id = row.id
                  /\ r.user[1].created_at = row.created_at
                  /\ table' = (table \ {row}) \cup {r.user[1]}]_vars

\* The fallback store holds two users and has just updated the older one,
\* whose created_at is still the earlier of the two.
C8_Witness ==
  /\ resp.op = "update"
  /\ resp.via = "mem"
  /\ resp.status = 200
  /\ Len(users) = 2
  /\ users[1] = resp.user[1]
  /\ users[1].created_at < users[2].created_at

\* A step that answers a health check: the handler in fallback mode, or its
\* COUNT query settling either way.
HealthAnswered ==
  \/ fallbackMode /\ Health
  \/ \E i \in 1..Len(pending) : pending[i].op = "health" /\ QueryFails(i)
  \/ \E i \in 1..Len(pending) : CountQuery(i)

\* C9: every answer to GET /api/health has status 200, success true and a
\* userCount of zero or more: the number of users of the fallback store when
\* it is active, the number of rows when the COUNT query succeeds, and 0
\* when that query is rejected.
C9_HealthAlwaysOk ==
  [][(resp'.op = "health" \/ HealthAnswered)
     => /\ resp'.op = "health"
        /\ resp'.status = 200
        /\ resp'.success
        /\ resp'.count >= 0
        /\ resp'.count = IF resp'.via = "mem" THEN Len(users)
                          ELSE IF BackendError THEN 0
                          ELSE Cardinality(table)]_vars

\* The table holds a user, the COUNT query of a health check was rejected,
\* and the degraded report has just been sent.
C9_Witness ==
  /\ resp.op = "health"
  /\ resp.status = 200
  /\ resp.database = "Connection Error"
  /\ resp.count = 0
  /\ table # {}

\* C10: the choice of store is made once.  Once fallbackMode is set it stays
\* set and no step sends a new query to the pool; once initializeDatabase()
\* has returned it does not run again, and when it returned without setting
\* fallbackMode, fallbackMode is never set.
C10_ChoiceMadeOnce ==
  [][/\ fallbackMode => fallbackMode'
     /\ fallbackMode => Len(pending') <= Len(pending)
     /\ initPc = "done" => initPc' = "done"
     /\ (initPc = "done" /\ ~fallbackMode) => ~fallbackMode']_vars

\* The probe failed after the table took a user; the fallback store has
\* since taken a user of its own and has just served the list from memory.
C10_Witness ==
  /\ fallbackMode
  /\ table # {}
  /\ Len(users) >= 1
  /\ resp.op = "list"
  /\ resp.via = "mem"

\* C11: one store serves every request of a run.  Once the probe has ended
\* in fallback, no answer comes from the table, no create or delete of the
\* run has been acknowledged by the table, and so every user acknowledged
\* with 201 and not deleted since is in the store that GET reads.
C11_OneVariantServes ==
  fallbackMode
  => /\ resp.via # "pg"
     /\ lastCreatedId.pg = 0
     /\ deletedIds.pg = {}
     /\ \A u \in table : \E i \in 1..Len(users) : users[i] = u

\* null in JSON: res.json writes NaN as null.
JsonAge(age) == IF age.k = "NaN" THEN Null ELSE age

\* The user data of an answer, as the client reads it: id, name, email and
\* age of the user returned and of the users listed.
UserData(r) ==
  {[id |-> u.id, name |-> u.name, email |-> u.email, age |-> JsonAge(u.age)] :
     u \in {r.user[i] : i \in 1..Len(r.user)}
           \cup {r.users[i] : i \in 1..Len(r.users)}}

\* C12: fed the same requests from an empty store and with no backend error,
\* the fallback process and the persistent process give each request the
\* same status and the same user data, whatever the id and the age sent.
C12_SameAnswers ==
  (~fallbackMode /\ twin # NoResp /\ resp # NoResp)
  => /\ resp.status = twin.status
     /\ UserData(resp) = UserData(twin)

\* The e-mail of the request is held by no user of the store that serves
\* it, the user an update addresses apart.
EmailFree(r) ==
  \A u \in Held(r.via) :
    SameIgnoringCase(u.email, r.body.email.v)
    => (r.op = "update" /\ r.id = IdText(u.id))

\* C13: in both processes of TwinSpec, where no query meets an outage, a
\* create, or an update of a user the store holds, with a non-empty name and
\* a valid e-mail no other user has, succeeds whatever its age is; when age
\* is left out or is no integer the user comes back with age null.
C13_AgeNeverFails ==
  [][LET r == resp' IN
     (/\ r.op \in {"create", "update"}
      /\ r.via # "none"
      /\ IsString(r.body.name)
      /\ IsString(r.body.email)
      /\ r.op = "update" => \E u \in Held(r.via) : r.id = IdText(u.id)
      /\ EmailFree(r))
     => /\ r.status = IF r.op = "create" THEN 201 ELSE 200
        /\ r.body.age.t # "number" => JsonAge(r.user[1].age) = Null]_vars

\* A field that is missing, or a string that is empty once trimmed.
Blank(x) == x.t = "undefined" \/ (x.t = "string" /\ trim(x.v) = <<>>)

\* C14: no user of either store has an empty name or an empty e-mail, and a
\* create or update whose name or e-mail is missing or blank is answered 400.
C14_NoBlankStored ==
  /\ \A u \in Held("mem") \cup Held("pg") : u.name # <<>> /\ u.email # <<>>
  /\ (resp.op \in {"create", "update"}
      /\ (Blank(resp.body.name) \/ Blank(resp.body.email)))
     => resp.status = 400

\* The body of an answer has one of the two shapes.
Shaped(r) ==
  \/ /\ "success" \in r.keys
     /\ "error" \notin r.keys
     /\ r.success
     /\ r.status \in {200, 201}
  \/ /\ r.keys = {"error"}
     /\ r.error # ""
     /\ r.status \in {400, 404, 500}

\* C15: every answer is a success body (success true, status 200 or 201) or
\* a failure body (an error message and nothing else, status 400, 404 or
\* 500).  A create or update that fails validation, and a duplicate e-mail,
\* get 400; a GET, PUT (well-typed body) or DELETE for a decimal id that
\* names no user of the store, with no backend error, gets 404; a query the
\* backend rejects gets 500 (the health check apart, which reports it with
\* 200); a path no route matches gets 404.
C15_TwoShapes ==
  [][LET r == resp' IN
     r # NoResp
     => /\ Shaped(r)
        /\ (r.op \in {"create", "update"} /\ Validation(r.body) # <<>>)
           => r.status = 400
        /\ r.error = "Email already exists" => r.status = 400
        /\ (/\ r.op \in {"get", "update", "delete"}
            /\ r.via \in {"mem", "pg"}
            /\ r.id \in {IdText(k) : k \in 1..9}
            /\ r.op = "update" => WellTyped(r.body)
            /\ ~\E u \in Held(r.via) : r.id = IdText(u.id)
            /\ ~BackendError)
           => r.status = 404
        /\ (r.op # "health" /\ r.status # 500 /\ pending # <<>>)
           => ~BackendError
        /\ r.op = "unmatched" => r.status = 404]_vars

\* A request for a path under /api that no route matches has just been
\* answered 404 with an error body.
C15_Witness ==
  /\ resp.op = "unmatched"
  /\ resp.status = 404
  /\ resp.keys = {"error"}

\* The users of the fallback store whose e-mail equals, but for case, email.
HoldersInMemory(us, email) ==
  {i \in 1..Len(us) : SameIgnoringCase(us[i].email, email)}

C17_NoUrlMeansFallback ==
  databaseUrl = ""
  => /\ initPc = "done" => fallbackMode
     /\ resp.via # "pg"
     /\ (Created(resp) /\ resp.via = "mem" /\ lastCreatedId.mem = resp.user[1].id
         /\ netCreated.mem = 1 /\ deletedIds.mem = {})
        => resp.user[1].id = 1

\* C18: the process exits only with status 0 and only once the pool has
\* been closed.
C18_ExitAfterPoolClosed ==
  exited # <<>> => (exited = <<0>> /\ pool.ended)

\* What the two dashboard forms send for a non-empty name.
FormData ==
  {AddUserData(name) : name \in FormNames} \cup
  {EditUserData(name) : name \in FormNames}

\* C19: a dashboard form submitted with a non-empty name is not rejected by
\* the server: the answer to its request is never 400.
C19_FormAccepted ==
  (resp.op \in {"create", "update"} /\ resp.body \in FormData
   /\ resp.body.name.v # <<>>)
  => resp.status # 400

\* A field that is left out or is the empty string.
Missing(x) == x.t = "undefined" \/ (x.t = "string" /\ x.v = <<>>)

\* A request body that fails validation: name or e-mail missing, or an
\* e-mail string that has not the shape local@domain.tld.
Invalid(body) ==
  \/ Missing(body.name)
  \/ Missing(body.email)
  \/ (IsString(body.email) /\ ~isValidEmail(body.email))

\* C20: a create or update whose body fails validation is answered 400 in
\* the step that receives it: neither store is consulted or changed and no
\* query is sent or awaited, whatever the backend's state and whether or not
\* the addressed id exists.
C20_ValidationFirst ==
  [][(resp' # resp /\ resp'.op \in {"create", "update"}
      /\ Invalid(resp'.body))
     => /\ resp'.status = 400
        /\ resp'.via = "none"
        /\ resp = NoResp
        /\ UNCHANGED <<store, pending, history>>]_vars

\* A PUT with a malformed e-mail on an id that neither store holds was
\* answered 400, on the fallback store after the probe failed.
C20_Witness ==
  /\ resp.op = "update"
  /\ resp.status = 400
  /\ IsString(resp.body.email) /\ ~isValidEmail(resp.body.email)
  /\ fallbackMode
  /\ \A u \in Held("mem") \cup Held("pg") : IdText(u.id) # resp.id

\* C21: on the fallback store a request answered 400, 404 or 500, and every
\* GET, leaves the users and the next-id counter as they were.
C21_FailureFrame ==
  [][(/\ fallbackMode
      /\ resp' # NoResp
      /\ resp'.via # "pg"
      /\ \/ resp'.status \in {400, 404, 500}
         \/ resp'.op \in {"list", "get", "health"})
     => UNCHANGED <<users, nextId>>]_vars

\* C22: no error escapes a handler: the promise of no route handler is
\* rejected, so every request is answered or is awaiting its query.
C22_NoErrorEscapes == unhandled = {}

====
